---------------------------- MODULE Spec2Model ----------------------------
(***************************************************************************)
(* Model of the continued-fraction approximation engine of preseq          *)
(* (continued_fraction.cpp / continued_fraction.hpp).                      *)
(*                                                                         *)
(* A C++ double is modelled as an extended rational <<n, d>>:              *)
(*    d > 0, n # 0, gcd(n, d) = 1   the finite non-zero value n/d          *)
(*    <<0, 1>>, <<0, -1>>           +0.0 and -0.0                          *)
(*    <<1, 0>>, <<-1, 0>>           +infinity and -infinity                *)
(*    <<0, 0>>                      NaN                                    *)
(* with the IEEE-754 rules for the special values.  Finite arithmetic is   *)
(* exact: rounding and overflow to infinity are outside the model.         *)
(***************************************************************************)
EXTENDS Integers, Sequences, FiniteSets, TLC

----------------------------------------------------------------------------
(* double arithmetic *)

NaN  == <<0, 0>>
PInf == <<1, 0>>
NInf == <<-1, 0>>
PZero == <<0, 1>>
NZero == <<0, -1>>

\* F applied to the value of x, computed once
Bind(x, F(_)) == CHOOSE r \in {F(v) : v \in {x}} : TRUE

Abs(k) == IF k < 0 THEN -k ELSE k

Sgn(k) == IF k > 0 THEN 1 ELSE IF k < 0 THEN -1 ELSE 0

RECURSIVE GCD(_, _)
GCD(a, b) == IF b = 0 THEN a ELSE GCD(b, a % b)

IsNaN(a)  == a[1] = 0 /\ a[2] = 0
IsInf(a)  == a[1] # 0 /\ a[2] = 0
IsZero(a) == a[1] = 0 /\ a[2] # 0
IsFinite(a) == a[2] # 0

\* the sign bit of a double that is not NaN: 1 or -1
Sign(a) == IF a[1] # 0 THEN Sgn(a[1]) ELSE Sgn(a[2])

\* the double of the integer k
D(k) == IF k = 0 THEN PZero ELSE <<k, 1>>

\* the double n/d for integers n, d with d # 0
Frac(n, d) ==
  IF n = 0 THEN PZero
  ELSE LET g == GCD(Abs(n), Abs(d))
       IN  <<Sgn(d) * (n \div g), Abs(d) \div g>>

DNeg(a) ==
  Bind(a, LAMBDA a0 :
    IF IsNaN(a0) THEN NaN
    ELSE IF IsZero(a0) THEN <<0, -a0[2]>>
    ELSE <<-a0[1], a0[2]>>)

DMul(a, b) ==
  Bind(a, LAMBDA a0 :
  Bind(b, LAMBDA b0 :
    IF IsNaN(a0) \/ IsNaN(b0) THEN NaN
    ELSE IF IsInf(a0) \/ IsInf(b0)
         THEN IF IsZero(a0) \/ IsZero(b0) THEN NaN ELSE <<Sign(a0) * Sign(b0), 0>>
    ELSE IF IsZero(a0) \/ IsZero(b0) THEN <<0, Sign(a0) * Sign(b0)>>
    ELSE LET g1 == GCD(Abs(a0[1]), b0[2])
             g2 == GCD(Abs(b0[1]), a0[2])
         IN  <<(a0[1] \div g1) * (b0[1] \div g2), (a0[2] \div g2) * (b0[2] \div g1)>>))

\* 1.0/b
DInv(b) ==
  Bind(b, LAMBDA b0 :
    IF IsNaN(b0) THEN NaN
    ELSE IF IsInf(b0) THEN <<0, Sign(b0)>>
    ELSE IF IsZero(b0) THEN <<Sign(b0), 0>>
    ELSE IF b0[1] > 0 THEN <<b0[2], b0[1]>> ELSE <<-b0[2], -b0[1]>>)

DDiv(a, b) ==
  Bind(a, LAMBDA a0 :
  Bind(b, LAMBDA b0 :
    IF IsNaN(a0) \/ IsNaN(b0) THEN NaN
    ELSE IF (IsInf(a0) /\ IsInf(b0)) \/ (IsZero(a0) /\ IsZero(b0)) THEN NaN
    ELSE DMul(a0, DInv(b0))))

DAdd(a, b) ==
  Bind(a, LAMBDA a0 :
  Bind(b, LAMBDA b0 :
    IF IsNaN(a0) \/ IsNaN(b0) THEN NaN
    ELSE IF IsInf(a0) THEN (IF IsInf(b0) /\ a0 # b0 THEN NaN ELSE a0)
    ELSE IF IsInf(b0) THEN b0
    ELSE IF IsZero(a0) /\ IsZero(b0)
         THEN (IF a0 = NZero /\ b0 = NZero THEN NZero ELSE PZero)
    ELSE IF IsZero(a0) THEN b0
    ELSE IF IsZero(b0) THEN a0
    ELSE LET g == GCD(a0[2], b0[2])
         IN  Frac(a0[1] * (b0[2] \div g) + b0[1] * (a0[2] \div g), (a0[2] \div g) * b0[2])))

DSub(a, b) == DAdd(a, DNeg(b))

\* a < b on doubles: false whenever an operand is NaN
DLt(a, b) ==
  Bind(a, LAMBDA a0 :
  Bind(b, LAMBDA b0 :
    IF IsNaN(a0) \/ IsNaN(b0) THEN FALSE
    ELSE IF IsInf(a0) \/ IsInf(b0)
         THEN a0 # b0 /\ (a0 = NInf \/ b0 = PInf)
    ELSE a0[1] * Abs(b0[2]) < b0[1] * Abs(a0[2])))

DGt(a, b) == DLt(b, a)

DLe(a, b) ==
  Bind(a, LAMBDA a0 :
  Bind(b, LAMBDA b0 :
    ~IsNaN(a0) /\ ~IsNaN(b0) /\ ~DLt(b0, a0)))

DGe(a, b) == DLe(b, a)

\* a == b on doubles: NaN equals nothing, -0.0 equals +0.0
DEq(a, b) == DLe(a, b) /\ DLe(b, a)

DFabs(a) ==
  Bind(a, LAMBDA a0 :
    IF IsNaN(a0) THEN NaN ELSE IF Sign(a0) < 0 THEN DNeg(a0) ELSE a0)

\* pow(a, k) for an integer exponent k >= 0; pow(x, 0) is 1 for every x
RECURSIVE DPow(_, _)
DPow(a, k) == IF k = 0 THEN D(1) ELSE DMul(DPow(a, k - 1), a)

\* std::max(a, b) is (a < b) ? b : a
DMax(a, b) ==
  Bind(a, LAMBDA a0 :
  Bind(b, LAMBDA b0 :
    IF DLt(a0, b0) THEN b0 ELSE a0))

\* std::min(a, b) is (b < a) ? b : a
DMin(a, b) ==
  Bind(a, LAMBDA a0 :
  Bind(b, LAMBDA b0 :
    IF DLt(b0, a0) THEN b0 ELSE a0))

----------------------------------------------------------------------------
(* std::vector<double> as a sequence; element i of the C++ vector is v[i+1] *)

\* v[i] by operator[]: a read at or past size() is not checked and yields
\* whatever the memory holds (oob)
Rd(v, i, oob) == IF i < Len(v) THEN v[i + 1] ELSE oob

RECURSIVE accumulate(_, _)
accumulate(v, init) ==
  IF v = <<>> THEN init
  ELSE Bind(DAdd(init, Head(v)), LAMBDA sum : accumulate(Tail(v), sum))

----------------------------------------------------------------------------
(* continued_fraction.cpp: constants and rescaling *)

\* TOLERANCE = 1e-TOLERANCE_EXP
TOLERANCE_EXP == 20

RECURSIVE DivPow10(_, _)
DivPow10(n, k) == IF k = 0 \/ n = 0 THEN n ELSE DivPow10(n \div 10, k - 1)

\* a > 1.0/TOLERANCE and a < TOLERANCE, for a double a
GtInvTolerance(a) ==
  Bind(a, LAMBDA a0 :
    IF IsNaN(a0) THEN FALSE
    ELSE IF IsInf(a0) THEN a0 = PInf
    ELSE a0[1] > 0 /\ DivPow10(a0[1] - 1, TOLERANCE_EXP) >= a0[2])

LtTolerance(a) ==
  Bind(a, LAMBDA a0 :
    IF IsNaN(a0) THEN FALSE
    ELSE IF IsInf(a0) THEN a0 = NInf
    ELSE a0[1] <= 0 \/ DivPow10(a0[2] - 1, TOLERANCE_EXP) >= a0[1])

get_rescale_value(numerator, denominator) ==
  Bind(DAdd(DFabs(numerator), DFabs(denominator)), LAMBDA rescale_val :
    IF GtInvTolerance(rescale_val) THEN DInv(rescale_val)
    ELSE IF LtTolerance(rescale_val) THEN DInv(rescale_val)
    ELSE D(1))

----------------------------------------------------------------------------
(* quotient-difference algorithms *)

\* row 1 of q_table: q_table[1][i] = ps_coeffs[i + 1]/ps_coeffs[i], i < depth
RECURSIVE q_row1(_, _, _, _)
q_row1(ps_coeffs, oob, i, acc) ==
  IF i >= Len(ps_coeffs) THEN acc
  ELSE q_row1(ps_coeffs, oob, i + 1,
              Append(acc, DDiv(Rd(ps_coeffs, i + 1, oob), Rd(ps_coeffs, i, oob))))

\* row 1 of e_table: e_table[1][j] = q_table[1][j + 1] - q_table[1][j]
\* + e_table[0][j + 1] for j < depth - 1; the last cell keeps its 0.0
RECURSIVE e_row1(_, _, _, _)
e_row1(q1, depth, j, acc) ==
  IF j >= depth - 1 THEN Append(acc, PZero)
  ELSE e_row1(q1, depth, j + 1,
              Append(acc, DAdd(DSub(q1[j + 2], q1[j + 1]), PZero)))

\* row i >= 2 of q_table from rows i - 1, for every j < depth
RECURSIVE q_row(_, _, _, _, _)
q_row(qp, ep, oob, j, acc) ==
  IF j >= Len(qp) THEN acc
  ELSE q_row(qp, ep, oob, j + 1,
             Append(acc, DDiv(DMul(Rd(qp, j + 1, oob), Rd(ep, j + 1, oob)),
                              Rd(ep, j, oob))))

\* row i >= 2 of e_table from row i of q_table and row i - 1 of e_table
RECURSIVE e_row(_, _, _, _, _)
e_row(qi, ep, oob, j, acc) ==
  IF j >= Len(qi) THEN acc
  ELSE e_row(qi, ep, oob, j + 1,
             Append(acc, DAdd(DSub(Rd(qi, j + 1, oob), Rd(qi, j, oob)),
                              Rd(ep, j + 1, oob))))

\* rows i..depth-1 appended to the tables t = [q |-> rows, e |-> rows]
RECURSIVE qd_rows(_, _, _, _)
qd_rows(t, depth, oob, i) ==
  IF i >= depth THEN t
  ELSE Bind(q_row(t.q[i], t.e[i], oob, 0, <<>>),
            LAMBDA qi :
              Bind([q |-> Append(t.q, qi),
                    e |-> Append(t.e, e_row(qi, t.e[i], oob, 0, <<>>))],
                   LAMBDA next : qd_rows(next, depth, oob, i + 1)))

\* q_table and e_table as the loops of quotdiff_algorithm leave them;
\* row i of a table is t.q[i + 1], t.e[i + 1]
qd_tables(ps_coeffs, oob) ==
  LET depth == Len(ps_coeffs)
      zero  == [j \in 1..depth |-> PZero]
  IN  Bind(q_row1(ps_coeffs, oob, 0, <<>>), LAMBDA q1 :
      Bind(e_row1(q1, depth, 0, <<>>), LAMBDA e1 :
      Bind([q |-> <<zero, q1>>, e |-> <<zero, e1>>], LAMBDA first :
        qd_rows(first, depth, oob, 2))))

RECURSIVE qd_coeffs(_, _, _, _)
qd_coeffs(t, depth, i, acc) ==
  IF i >= depth THEN acc
  ELSE qd_coeffs(t, depth, i + 1,
         Append(acc, IF i % 2 = 0 THEN DNeg(t.e[(i \div 2) + 1][1])
                     ELSE DNeg(t.q[((i + 1) \div 2) + 1][1])))

\* quotdiff_algorithm(ps_coeffs, cf_coeffs): the coefficients pushed onto
\* cf_coeffs.  depth >= 2 (q_table[1] must exist).
quotdiff_algorithm(ps_coeffs, oob) ==
  Bind(qd_tables(ps_coeffs, oob), LAMBDA tables :
    qd_coeffs(tables, Len(ps_coeffs), 1, <<ps_coeffs[1]>>))

\* coeffs[offset .. size-1], the holding_coeffs of both off-diagonal builders
RECURSIVE holding(_, _, _)
holding(coeffs, i, acc) ==
  IF i >= Len(coeffs) THEN acc
  ELSE holding(coeffs, i + 1, Append(acc, coeffs[i + 1]))

\* v[0 .. offset-1] pushed one by one (operator[] reads)
RECURSIVE first_coeffs(_, _, _, _, _)
first_coeffs(v, offset, oob, i, acc) ==
  IF i >= offset THEN acc
  ELSE first_coeffs(v, offset, oob, i + 1, Append(acc, Rd(v, i, oob)))

\* quotdiff_above_diagonal(coeffs, offset, offset_coeffs, cf_coeffs): what it
\* pushes onto its third and onto its fourth argument
quotdiff_above_diagonal(coeffs, offset, oob) ==
  Bind(holding(coeffs, offset, <<>>), LAMBDA holding_coeffs :
    [cf_coeffs     |-> quotdiff_algorithm(holding_coeffs, oob),
     offset_coeffs |-> first_coeffs(coeffs, offset, oob, 0, <<>>)])

\* holding_val of quotdiff_below_diagonal: the sum over j < i of
\* coeffs[i - j]*reciprocal_coeffs[j], accumulated from 0.0
RECURSIVE holding_val(_, _, _, _, _)
holding_val(coeffs, rec, i, j, acc) ==
  IF j >= i THEN acc
  ELSE Bind(DAdd(acc, DMul(coeffs[i - j + 1], rec[j + 1])),
            LAMBDA sum : holding_val(coeffs, rec, i, j + 1, sum))

\* the reciprocals of the coefficients taken one by one: 1.0/coeffs[i]
\* pushed for every i
RECURSIVE reciprocal_termwise(_, _, _, _)
reciprocal_termwise(coeffs, oob, i, rec) ==
  IF i >= Len(coeffs) THEN rec
  ELSE reciprocal_termwise(coeffs, oob, i + 1, Append(rec, DInv(coeffs[i + 1])))

\* reciprocal_coeffs of quotdiff_below_diagonal: g = 1/f
RECURSIVE reciprocal_coeffs(_, _, _, _)
reciprocal_coeffs(coeffs, oob, i, rec) ==
  IF i >= Len(coeffs) THEN rec
  ELSE Bind(Append(rec, DDiv(DNeg(holding_val(coeffs, rec, i, 0, PZero)),
                             Rd(coeffs, 0, oob))),
            LAMBDA pushed : reciprocal_coeffs(coeffs, oob, i + 1, pushed))

quotdiff_below_diagonal(coeffs, offset, oob) ==
  Bind(reciprocal_coeffs(coeffs, oob, 1, <<DInv(Rd(coeffs, 0, oob))>>), LAMBDA rec :
  Bind(holding(rec, offset, <<>>), LAMBDA holding_coeffs :
    [offset_coeffs |-> first_coeffs(rec, offset, oob, 0, <<>>),
     cf_coeffs     |-> quotdiff_algorithm(holding_coeffs, oob)]))

\* ContinuedFraction::ContinuedFraction(ps_cf, di, dg).  The above-diagonal
\* call passes the member cf_coeffs as the builder's third argument (its
\* offset_coeffs) and the member offset_coeffs as its fourth (its cf_coeffs).
ContinuedFraction(ps_cf, di, dg, oob) ==
  IF di = 0
    THEN [ps_coeffs |-> ps_cf, cf_coeffs |-> quotdiff_algorithm(ps_cf, oob),
          offset_coeffs |-> <<>>, diagonal_idx |-> di, degree |-> dg]
  ELSE IF di > 0
    THEN Bind(quotdiff_above_diagonal(ps_cf, di, oob), LAMBDA r :
           [ps_coeffs |-> ps_cf, cf_coeffs |-> r.offset_coeffs,
            offset_coeffs |-> r.cf_coeffs, diagonal_idx |-> di, degree |-> dg])
  ELSE Bind(quotdiff_below_diagonal(ps_cf, -di, oob), LAMBDA r :
         [ps_coeffs |-> ps_cf, cf_coeffs |-> r.cf_coeffs,
          offset_coeffs |-> r.offset_coeffs, diagonal_idx |-> di, degree |-> dg])

\* ContinuedFraction(): the default-constructed value (degree and
\* diagonal_idx are left uninitialised; the vectors are empty)
DefaultContinuedFraction ==
  [ps_coeffs |-> <<>>, cf_coeffs |-> <<>>, offset_coeffs |-> <<>>,
   diagonal_idx |-> 0, degree |-> 0]

is_valid(cf) == cf.cf_coeffs # <<>>

----------------------------------------------------------------------------
(* evaluation of a continued fraction at a point *)

\* the six locals of an evaluator before its loop; steps lists the indices
\* of cf_coeffs the loop has used
euler_init(cf_coeffs, oob) ==
  [current_num |-> PZero, prev_num1 |-> Rd(cf_coeffs, 0, oob), prev_num2 |-> PZero,
   current_denom |-> PZero, prev_denom1 |-> D(1), prev_denom2 |-> D(1),
   steps |-> <<>>]

\* one pass through the body of an evaluator's loop, with coefficient c
euler_rescaled(st, current_num, current_denom, rescale_val) ==
  [current_num   |-> DMul(current_num, rescale_val),
   current_denom |-> DMul(current_denom, rescale_val),
   prev_num1     |-> DMul(current_num, rescale_val),
   prev_num2     |-> DMul(st.prev_num1, rescale_val),
   prev_denom1   |-> DMul(current_denom, rescale_val),
   prev_denom2   |-> DMul(st.prev_denom1, rescale_val),
   steps         |-> st.steps]

euler_step(st, c, val) ==
  Bind(DMul(c, val), LAMBDA cv :
  Bind(DAdd(st.prev_num1, DMul(cv, st.prev_num2)), LAMBDA current_num :
  Bind(DAdd(st.prev_denom1, DMul(cv, st.prev_denom2)), LAMBDA current_denom :
  Bind(get_rescale_value(current_num, current_denom), LAMBDA rescale_val :
    euler_rescaled(st, current_num, current_denom, rescale_val)))))

\* for (i = ...; i < depth; i++) of an evaluator, from its state st at i
RECURSIVE euler_loop(_, _, _, _, _, _)
euler_loop(cf_coeffs, val, depth, oob, i, st) ==
  IF i >= depth THEN st
  ELSE Bind([euler_step(st, Rd(cf_coeffs, i, oob), val) EXCEPT !.steps = Append(@, i)],
            LAMBDA next : euler_loop(cf_coeffs, val, depth, oob, i + 1, next))

\* the sum over i < min(offset_coeffs.size(), depth) of offset_coeffs[i]*pow(val, i)
RECURSIVE offset_terms(_, _, _, _, _)
offset_terms(offset_coeffs, val, depth, i, acc) ==
  IF i >= Len(offset_coeffs) \/ i >= depth THEN acc
  ELSE Bind(DAdd(acc, DMul(offset_coeffs[i + 1], DPow(val, i))),
            LAMBDA sum : offset_terms(offset_coeffs, val, depth, i + 1, sum))

MinNat(a, b) == IF b < a THEN b ELSE a

\* offset_part + pow(val, min(offset_coeffs.size(), depth))*current_num/current_denom
offset_sum(st, offset_coeffs, val, depth) ==
  Bind(offset_terms(offset_coeffs, val, depth, 0, PZero), LAMBDA offset_part :
  Bind(DMul(DPow(val, MinNat(Len(offset_coeffs), depth)), st.current_num), LAMBDA top :
  Bind(DDiv(top, st.current_denom), LAMBDA quotient :
    DAdd(offset_part, quotient))))

evaluate_above_diagonal(cf_coeffs, offset_coeffs, val, depth, oob) ==
  Bind(euler_loop(cf_coeffs, val, depth, oob, 1, euler_init(cf_coeffs, oob)), LAMBDA st :
  Bind(offset_sum(st, offset_coeffs, val, depth), LAMBDA sum :
    DMul(val, sum)))

evaluate_below_diagonal(cf_coeffs, offset_coeffs, val, depth, oob) ==
  Bind(euler_loop(cf_coeffs, val, depth, oob, 1, euler_init(cf_coeffs, oob)), LAMBDA st :
  Bind(offset_sum(st, offset_coeffs, val, depth), LAMBDA sum :
    DDiv(val, sum)))

evaluate_on_diagonal(cf_coeffs, val, depth, oob) ==
  Bind(euler_loop(cf_coeffs, val, depth, oob, 1, euler_init(cf_coeffs, oob)), LAMBDA st :
  Bind(DMul(val, st.current_num), LAMBDA top :
    DDiv(top, st.current_denom)))

\* ContinuedFraction::operator()(val)
Evaluate(cf, val, oob) ==
  IF cf.diagonal_idx > 0
    THEN evaluate_above_diagonal(cf.cf_coeffs, cf.offset_coeffs, val, cf.degree, oob)
  ELSE IF cf.diagonal_idx < 0
    THEN evaluate_below_diagonal(cf.cf_coeffs, cf.offset_coeffs, val, cf.degree, oob)
  ELSE evaluate_on_diagonal(cf.cf_coeffs, val, cf.degree, oob)

\* the loop of extrapolate_distinct from t, pushing onto estimates
RECURSIVE extrapolate_loop(_, _, _, _, _, _, _)
extrapolate_loop(cf, hist_sum, max_value, step_size, oob, t, estimates) ==
  IF ~DLe(t, max_value) THEN estimates
  ELSE Bind(Append(estimates, DAdd(hist_sum, Evaluate(cf, t, oob))),
            LAMBDA pushed :
              Bind(DAdd(t, step_size),
                   LAMBDA next_t : extrapolate_loop(cf, hist_sum, max_value, step_size,
                                                    oob, next_t, pushed)))

\* estimates.push_back(hist_sum) on estimates as they are on entry: what
\* extrapolate_distinct would do without its estimates.clear()
extrapolate_keep(estimates, hist_sum) == Append(estimates, hist_sum)

\* estimates.clear(); estimates.push_back(hist_sum)
extrapolate_begin(estimates, hist_sum) == Append(SubSeq(estimates, 1, 0), hist_sum)

\* ContinuedFraction::extrapolate_distinct: the contents of estimates on
\* return.  step_size > 0.
extrapolate_distinct(cf, counts_hist, max_value, step_size, estimates, oob) ==
  Bind(accumulate(counts_hist, PZero), LAMBDA hist_sum :
    extrapolate_loop(cf, hist_sum, max_value, step_size, oob, step_size,
                     extrapolate_begin(estimates, hist_sum)))

----------------------------------------------------------------------------
(* complex evaluation and the complex-step derivative                       *)
(*                                                                          *)
(* A complex<double> is modelled to first order in DERIV_DELTA: the record  *)
(* [re, im] stands for re + i*DERIV_DELTA*im, and terms of order            *)
(* DERIV_DELTA^2 = 1e-16 relative to the result are dropped.                *)

CReal(r) == [re |-> r, im |-> PZero]

\* value + DERIV_DELTA*sqrt_neg1
perturbed(val) == [re |-> val, im |-> D(1)]

CAdd(a, b) ==
  Bind(a, LAMBDA a0 :
  Bind(b, LAMBDA b0 :
    [re |-> DAdd(a0.re, b0.re), im |-> DAdd(a0.im, b0.im)]))

CMul(a, b) ==
  Bind(a, LAMBDA a0 :
  Bind(b, LAMBDA b0 :
    [re |-> DMul(a0.re, b0.re),
     im |-> DAdd(DMul(a0.re, b0.im), DMul(a0.im, b0.re))]))

\* complex*double
CScale(a, r) ==
  Bind(a, LAMBDA a0 :
  Bind(r, LAMBDA r0 :
    [re |-> DMul(a0.re, r0), im |-> DMul(a0.im, r0)]))

\* a/b.  When the real part of b is zero and its imaginary part is not, the
\* quotient is a.im/b.im - i*a.re/(DERIV_DELTA*b.im): an imaginary part of
\* order 1/DERIV_DELTA^2 in the unit of the model, taken as infinite.
CDiv(a, b) ==
  Bind(a, LAMBDA a0 :
  Bind(b, LAMBDA b0 :
    IF ~IsZero(b0.re)
      THEN Bind(DDiv(a0.re, b0.re), LAMBDA q :
             [re |-> q,
              im |-> DSub(DDiv(a0.im, b0.re), DMul(q, DDiv(b0.im, b0.re)))])
    ELSE IF ~IsZero(b0.im)
      THEN [re |-> DDiv(a0.im, b0.im),
            im |-> IF IsZero(a0.re) THEN PZero
                   ELSE DMul(DNeg(DDiv(a0.re, b0.im)), PInf)]
    ELSE [re |-> DDiv(a0.re, b0.re), im |-> DDiv(a0.im, b0.re)]))

\* pow(a, k) for an integer k >= 0
RECURSIVE CPow(_, _)
CPow(a, k) == IF k = 0 THEN CReal(D(1)) ELSE CMul(CPow(a, k - 1), a)

\* norm(a) == 0.0
CNormIsZero(a) ==
  Bind(a, LAMBDA a0 :
    IsZero(a0.re) /\ IsZero(a0.im))

\* norm(a) up to its size: NaN, infinite, zero, or D(1) for a value strictly
\* between TOLERANCE and 1/TOLERANCE.  A finite non-zero double of the model
\* has a magnitude between 2^-31 and 2^31, so its square lies between 2^-62
\* and 2^62, inside (1e-20, 1e20); a real part of zero leaves
\* DERIV_DELTA^2*im^2, which is below TOLERANCE^(1/2) and positive.
norm_class(a) ==
  Bind(a, LAMBDA a0 :
    IF IsNaN(a0.re) \/ IsNaN(a0.im) THEN NaN
    ELSE IF IsInf(a0.re) \/ IsInf(a0.im) THEN PInf
    ELSE IF IsZero(a0.re) THEN PZero
    ELSE D(1))

\* get_rescale_value(complex, complex) with rescale_val = norm(numerator) +
\* norm(denominator): 1.0 when the sum is NaN or inside [TOLERANCE,
\* 1/TOLERANCE], otherwise 1.0/rescale_val.  When both real parts are zero
\* and an imaginary part is not, the factor is finite and positive and
\* cancels in every quotient of the evaluators; the model takes 1.0 for it.
get_rescale_value_complex(numerator, denominator) ==
  Bind(DAdd(norm_class(numerator), norm_class(denominator)), LAMBDA rescale_val :
    IF IsNaN(rescale_val) THEN D(1)
    ELSE IF IsInf(rescale_val) THEN DInv(rescale_val)
    ELSE IF IsZero(rescale_val)
      THEN (IF CNormIsZero(numerator) /\ CNormIsZero(denominator)
              THEN DInv(rescale_val) ELSE D(1))
    ELSE D(1))

\* the six locals of a complex evaluator before its loop
complex_init(cf_coeffs, oob) ==
  [current_num |-> CReal(PZero), prev_num1 |-> CReal(Rd(cf_coeffs, 0, oob)),
   prev_num2 |-> CReal(PZero), current_denom |-> CReal(PZero),
   prev_denom1 |-> CReal(D(1)), prev_denom2 |-> CReal(D(1)),
   steps |-> <<>>]

\* one pass through the body of a complex evaluator's loop, at index j
complex_rescaled(st, current_num, current_denom, rescale_val) ==
  [current_num   |-> CScale(current_num, rescale_val),
   current_denom |-> CScale(current_denom, rescale_val),
   prev_num1     |-> CScale(current_num, rescale_val),
   prev_num2     |-> CScale(st.prev_num1, rescale_val),
   prev_denom1   |-> CScale(current_denom, rescale_val),
   prev_denom2   |-> CScale(st.prev_denom1, rescale_val),
   steps         |-> st.steps]

complex_step(st, c, perturbed_val) ==
  Bind(CMul(CReal(c), perturbed_val), LAMBDA cv :
  Bind(CAdd(st.prev_num1, CMul(cv, st.prev_num2)), LAMBDA current_num :
  Bind(CAdd(st.prev_denom1, CMul(cv, st.prev_denom2)), LAMBDA current_denom :
  Bind(get_rescale_value_complex(current_num, current_denom), LAMBDA rescale_val :
    complex_rescaled(st, current_num, current_denom, rescale_val)))))

\* for (j = ...; j < bound; j++) of a complex evaluator, from its state st at j
RECURSIVE complex_loop(_, _, _, _, _, _)
complex_loop(cf_coeffs, perturbed_val, bound, oob, j, st) ==
  IF j >= bound THEN st
  ELSE Bind([complex_step(st, Rd(cf_coeffs, j, oob), perturbed_val)
               EXCEPT !.steps = Append(@, j)],
            LAMBDA next : complex_loop(cf_coeffs, perturbed_val, bound, oob, j + 1, next))

\* the sum over i < min(offset_coeffs.size(), depth) of
\* offset_coeffs[i]*pow(perturbed_val, i)
RECURSIVE complex_offset_terms(_, _, _, _, _)
complex_offset_terms(offset_coeffs, perturbed_val, depth, k, acc) ==
  IF k >= Len(offset_coeffs) \/ k >= depth THEN acc
  ELSE Bind(CAdd(acc, CScale(CPow(perturbed_val, k), offset_coeffs[k + 1])),
            LAMBDA sum : complex_offset_terms(offset_coeffs, perturbed_val, depth,
                                              k + 1, sum))

\* offset_terms + pow(perturbed_val, min(offset_coeffs.size(), depth))
\*                  *current_num/current_denom
complex_offset_sum(st, offset_coeffs, perturbed_val, depth) ==
  Bind(complex_offset_terms(offset_coeffs, perturbed_val, depth, 0, CReal(PZero)),
       LAMBDA offset_part :
  Bind(CMul(CPow(perturbed_val, MinNat(Len(offset_coeffs), depth)), st.current_num),
       LAMBDA top :
  Bind(CDiv(top, st.current_denom), LAMBDA quotient :
    CAdd(offset_part, quotient))))

\* each complex evaluator gives [approx, steps]: the value it assigns to
\* approx and the indices of cf_coeffs its loop used
evaluate_complex_on_diagonal(cf_coeffs, perturbed_val, depth, oob) ==
  IF CNormIsZero(perturbed_val) THEN [approx |-> CReal(PZero), steps |-> <<>>]
  ELSE
    Bind(complex_loop(cf_coeffs, perturbed_val, depth, oob, 1,
                      complex_init(cf_coeffs, oob)), LAMBDA st :
    Bind(CMul(perturbed_val, st.current_num), LAMBDA top :
      [approx |-> CDiv(top, st.current_denom), steps |-> st.steps]))

evaluate_complex_above_diagonal(cf_coeffs, offset_coeffs, perturbed_val, depth, oob) ==
  IF CNormIsZero(perturbed_val) THEN [approx |-> CReal(PZero), steps |-> <<>>]
  ELSE
    Bind(complex_loop(cf_coeffs, perturbed_val, depth, oob, 1,
                      complex_init(cf_coeffs, oob)), LAMBDA st :
    Bind(complex_offset_sum(st, offset_coeffs, perturbed_val, depth), LAMBDA sum :
      [approx |-> CMul(perturbed_val, sum), steps |-> st.steps]))

\* the loop of this one runs to cf_coeffs.size(), not to depth
evaluate_complex_below_diagonal(cf_coeffs, offset_coeffs, perturbed_val, depth, oob) ==
  IF CNormIsZero(perturbed_val) THEN [approx |-> CReal(PZero), steps |-> <<>>]
  ELSE
    Bind(complex_loop(cf_coeffs, perturbed_val, Len(cf_coeffs), oob, 1,
                      complex_init(cf_coeffs, oob)), LAMBDA st :
    Bind(complex_offset_sum(st, offset_coeffs, perturbed_val, depth), LAMBDA sum :
      [approx |-> CDiv(perturbed_val, sum), steps |-> st.steps]))

\* the call complex_deriv makes to an evaluator: df and the loop's indices
complex_df(cf, val, oob) ==
  IF cf.diagonal_idx = 0
    THEN evaluate_complex_on_diagonal(cf.cf_coeffs, perturbed(val), cf.degree, oob)
  ELSE IF cf.diagonal_idx > 0
    THEN evaluate_complex_above_diagonal(cf.cf_coeffs, cf.offset_coeffs,
                                         perturbed(val), cf.degree, oob)
  ELSE evaluate_complex_below_diagonal(cf.cf_coeffs, cf.offset_coeffs,
                                       perturbed(val), cf.degree, oob)

\* ContinuedFraction::complex_deriv(val) = imag(df)/DERIV_DELTA
complex_deriv(cf, val, oob) == complex_df(cf, val, oob).approx.im

\* the indices of cf_coeffs the loop of operator()(val) uses
evaluate_steps(cf, val, oob) ==
  euler_loop(cf.cf_coeffs, val, cf.degree, oob, 1, euler_init(cf.cf_coeffs, oob)).steps

----------------------------------------------------------------------------
(* location of a local maximum by bisection *)

\* std::numeric_limits<double>::max(): above every finite value the model
\* forms and below +infinity.  It is only compared and divided by.
DBL_MAX == <<2, 0>>

\* binary places of the doubles of a bracket: a bracket of width 1 can be
\* halved MaxBisections times before its midpoint rounds to an endpoint
MaxBisections == 2

\* a finite double rounded to MaxBisections binary places, ties to even
round_to_places(a) ==
  Bind(a, LAMBDA a0 :
    IF ~IsFinite(a0) \/ IsZero(a0) THEN a0
    ELSE Bind(a0[1] * (2 ^ MaxBisections), LAMBDA num :
         Bind(num \div a0[2], LAMBDA fl :
         Bind(num - fl * a0[2], LAMBDA rem :
           Frac(IF 2 * rem < a0[2] THEN fl
                ELSE IF 2 * rem > a0[2] THEN fl + 1
                ELSE IF fl % 2 = 0 THEN fl ELSE fl + 1,
                2 ^ MaxBisections)))))

\* (a + b)/2.0 as the double it is stored in
midpoint(a, b) == round_to_places(DDiv(DAdd(a, b), D(2)))

\* a > TOLERANCE
GtTolerance(a) ==
  Bind(a, LAMBDA a0 :
    IF a0 = DBL_MAX THEN TRUE ELSE ~IsNaN(a0) /\ ~LtTolerance(a0))

\* std::min(best, candidate) is (candidate < best) ? candidate : best
min_best(best, candidate) ==
  Bind(candidate, LAMBDA candidate0 :
    IF best = DBL_MAX
      THEN (IF IsNaN(candidate0) \/ candidate0 = PInf THEN best ELSE candidate0)
    ELSE DMin(best, candidate0))

\* movement(a, b) = fabs((a - b)/std::max(a, b))
movement(a, b) ==
  Bind(a, LAMBDA a0 :
  Bind(b, LAMBDA b0 :
    DFabs(DDiv(DSub(a0, b0), DMax(a0, b0)))))

\* a diff that ignores the derivatives: the value it has after the first pass
relative_change_unit(prev_deriv, deriv_mid) == D(1)

\* fabs((prev_deriv - deriv_mid)/prev_deriv); with prev_deriv = DBL_MAX the
\* quotient of a finite deriv_mid rounds to 1.0
relative_change(prev_deriv, deriv_mid) ==
  Bind(prev_deriv, LAMBDA prev_deriv0 :
  Bind(deriv_mid, LAMBDA deriv_mid0 :
    IF prev_deriv0 = DBL_MAX
      THEN (IF IsNaN(deriv_mid0) THEN NaN
            ELSE IF IsInf(deriv_mid0) THEN PInf ELSE D(1))
    ELSE DFabs(DDiv(DSub(prev_deriv0, deriv_mid0), prev_deriv0))))

\* the same test with >= and <= in place of > and <: a zero derivative
\* counts as a change of sign
sign_change_loose(deriv_mid, deriv_low) ==
  Bind(deriv_mid, LAMBDA deriv_mid0 :
  Bind(deriv_low, LAMBDA deriv_low0 :
    \/ DGe(deriv_mid0, PZero) /\ DLe(deriv_low0, PZero)
    \/ DLe(deriv_mid0, PZero) /\ DGe(deriv_low0, PZero)))

\* (deriv_mid > 0 && deriv_low < 0) || (deriv_mid < 0 && deriv_low > 0)
sign_change(deriv_mid, deriv_low) ==
  Bind(deriv_mid, LAMBDA deriv_mid0 :
  Bind(deriv_low, LAMBDA deriv_low0 :
    \/ DGt(deriv_mid0, PZero) /\ DLt(deriv_low0, PZero)
    \/ DLt(deriv_mid0, PZero) /\ DGt(deriv_low0, PZero)))

\* the locals of locate_zero_cf_deriv before its loop
locate_init(cf, val, prev_val, oob) ==
  [val_low |-> prev_val, deriv_low |-> complex_deriv(cf, prev_val, oob),
   val_high |-> val, deriv_high |-> complex_deriv(cf, val, oob),
   val_mid |-> DDiv(DSub(val, prev_val), D(2)), deriv_mid |-> DBL_MAX,
   diff |-> DBL_MAX, prev_deriv |-> DBL_MAX, passes |-> 0]

\* the passes of a call are counted up to MaxBisections + 2: one more than
\* a bracket of width 1 needs to collapse
saturated(n) == IF n > MaxBisections + 2 THEN MaxBisections + 2 ELSE n

\* one pass through the body of the loop of locate_zero_cf_deriv
locate_step(cf, b, oob) ==
  Bind(midpoint(b.val_low, b.val_high), LAMBDA val_mid :
  Bind(complex_deriv(cf, val_mid, oob), LAMBDA deriv_mid :
  Bind(IF sign_change(deriv_mid, b.deriv_low) THEN b.val_low ELSE val_mid,
       LAMBDA val_low :
  Bind(IF sign_change(deriv_mid, b.deriv_low) THEN val_mid ELSE b.val_high,
       LAMBDA val_high :
    [val_low |-> val_low, deriv_low |-> complex_deriv(cf, val_low, oob),
     val_high |-> val_high, deriv_high |-> complex_deriv(cf, val_high, oob),
     val_mid |-> val_mid, deriv_mid |-> deriv_mid,
     diff |-> relative_change(b.prev_deriv, deriv_mid), prev_deriv |-> deriv_mid,
     passes |-> saturated(b.passes + 1)]))))

\* while (diff > TOLERANCE && movement(val_low, val_high) > TOLERANCE)
RECURSIVE locate_loop(_, _, _)
locate_loop(cf, b, oob) ==
  IF /\ GtTolerance(b.diff)
     /\ GtTolerance(movement(b.val_low, b.val_high))
    THEN Bind(locate_step(cf, b, oob), LAMBDA next : locate_loop(cf, next, oob))
  ELSE b

\* ContinuedFractionApproximation::locate_zero_cf_deriv(cf, val, prev_val)
locate_zero_cf_deriv(cf, val, prev_val, oob) ==
  Bind(locate_init(cf, val, prev_val, oob), LAMBDA b : locate_loop(cf, b, oob).val_mid)

----------------------------------------------------------------------------
(* stability check *)

\* the condition under which the loop body of check_estimates_stability
\* returns false at index i >= 1
unstable_at(estimates, i) ==
  \/ DLt(estimates[i + 1], estimates[i])
  \/ /\ i >= 2
     /\ DGt(DSub(estimates[i + 1], estimates[i]),
            DSub(estimates[i], estimates[i - 1]))

RECURSIVE stability_loop(_, _)
stability_loop(estimates, i) ==
  IF i >= Len(estimates) THEN TRUE
  ELSE IF unstable_at(estimates, i) THEN FALSE
  ELSE stability_loop(estimates, i + 1)

check_estimates_stability(estimates) == stability_loop(estimates, 1)

----------------------------------------------------------------------------
(* state *)

VARIABLES
  counts_hist,   \* the histogram passed to the call in progress
  diagonal_idx,  \* ContinuedFractionApproximation::diagonal_idx
  max_terms,     \* ContinuedFractionApproximation::max_terms
  step_size,     \* ContinuedFractionApproximation::step_size
  max_value,     \* ContinuedFractionApproximation::max_value
  oob,           \* what an unchecked read past a vector's end yields in this call
  pc,            \* control position of the call in progress
  ps_coeffs,     \* local ps_coeffs of the degree loops
  n_terms,       \* loop variable of the degree loops
  cf,            \* the ContinuedFraction being built / evaluated
  estimates,     \* the estimates vector
  t,             \* loop variable of extrapolate_distinct
  i,             \* loop variable of check_estimates_stability
  stable,        \* value returned by check_estimates_stability
  tried,         \* degrees built by the call in progress, with what each gave
  result,        \* value returned by the call that ended last
  prev_degree,   \* largest degree selected by the earlier successful calls
  val,           \* argument of the last operator() / complex_deriv call; loop variable of local_max
  value,         \* value returned by the last operator() call
  real_steps,    \* indices of cf_coeffs the loop of that operator() call used
  df,            \* local df of the last complex_deriv call
  deriv,         \* value returned by the last complex_deriv call
  cplx_steps,    \* indices of cf_coeffs the loop of that complex_deriv call used
  current_max,   \* local current_max of local_max
  best,          \* local best of lowerbound_librarysize
  q_table,       \* local q_table of quotdiff_algorithm; row r is q_table[r + 1]
  e_table,       \* local e_table of quotdiff_algorithm; row r is e_table[r + 1]
  cf_coeffs,     \* the vector quotdiff_algorithm pushes onto
  ps_reads,      \* indices of ps_coeffs that quotdiff_algorithm has read
  cell_reads,    \* <<row, column>> of the table cells quotdiff_algorithm has read
  prev_val,      \* argument prev_val of locate_zero_cf_deriv
  bracket,       \* the locals of locate_zero_cf_deriv
  hist_reads     \* indices of counts_hist read by the loop that fills ps_coeffs

vars == <<counts_hist, diagonal_idx, max_terms, step_size, max_value, oob, pc,
          ps_coeffs, n_terms, cf, estimates, t, i, stable, tried, result,
          prev_degree, val, value, real_steps, df, deriv, cplx_steps,
          current_max, best, q_table, e_table, cf_coeffs, ps_reads, cell_reads,
          prev_val, bracket, hist_reads>>

configVars == <<diagonal_idx, max_terms, step_size, max_value>>

selectorVars == <<ps_coeffs, n_terms, tried, result, prev_degree>>

evalVars == <<val, value, real_steps, df, deriv, cplx_steps>>

boundVars == <<current_max, best>>

qdVars == <<q_table, e_table, cf_coeffs, ps_reads, cell_reads>>

locateVars == <<prev_val, bracket>>

\* values of the variables a specification does not use
NoConfig ==
  /\ diagonal_idx = 0
  /\ max_terms = 0
  /\ step_size = D(1)
  /\ max_value = PZero

NoSelector ==
  /\ ps_coeffs = <<>>
  /\ n_terms = 0
  /\ tried = <<>>
  /\ result = DefaultContinuedFraction
  /\ prev_degree = 0

NoEval ==
  /\ val = PZero
  /\ value = PZero
  /\ real_steps = <<>>
  /\ df = [re |-> PZero, im |-> PZero]
  /\ deriv = PZero
  /\ cplx_steps = <<>>

NoBound ==
  /\ current_max = PZero
  /\ best = PZero

NoQd ==
  /\ q_table = <<>>
  /\ e_table = <<>>
  /\ cf_coeffs = <<>>
  /\ ps_reads = {}
  /\ cell_reads = {}

NoLocate ==
  /\ prev_val = PZero
  /\ bracket = [passes |-> 0]

\* all sequences over S of length at most n
SeqsUpTo(S, n) == UNION {[1..k -> S] : k \in 0..n}

----------------------------------------------------------------------------
(* SpecStability: check_estimates_stability on its own *)

MaxEstimates == 4

EstimateValues == {NaN, PInf, PZero, D(1), D(2), D(4)}

\* the three sequences the description of check_estimates_stability names
ExampleEstimates ==
  { <<D(10), D(12), D(13), Frac(27, 2)>>,
    <<D(10), D(12), D(11)>>,
    <<D(10), D(12), D(15), D(19)>> }

InitStability ==
  /\ estimates \in SeqsUpTo(EstimateValues, MaxEstimates) \cup ExampleEstimates
  /\ i = 1
  /\ stable = FALSE
  /\ pc = "check"
  /\ counts_hist = <<>>
  /\ oob = NaN
  /\ cf = DefaultContinuedFraction
  /\ t = PZero
  /\ NoConfig
  /\ NoSelector
  /\ NoEval
  /\ NoBound
  /\ NoQd
  /\ NoLocate
  /\ hist_reads = {}

\* the loop body finds the sequence unstable at i: return false
StabilityReturnFalse ==
  /\ pc = "check"
  /\ i < Len(estimates)
  /\ unstable_at(estimates, i)
  /\ stable' = FALSE
  /\ pc' = "checked"
  /\ UNCHANGED <<hist_reads, qdVars, locateVars, evalVars, boundVars, counts_hist, oob, cf, estimates, t, i, configVars, selectorVars>>

\* the loop body passes at i: ++i
StabilityNext ==
  /\ pc = "check"
  /\ i < Len(estimates)
  /\ ~unstable_at(estimates, i)
  /\ i' = i + 1
  /\ UNCHANGED <<hist_reads, qdVars, locateVars, evalVars, boundVars, counts_hist, oob, cf, estimates, t, stable, pc, configVars, selectorVars>>

\* the loop ends: return true
StabilityReturnTrue ==
  /\ pc = "check"
  /\ i >= Len(estimates)
  /\ stable' = TRUE
  /\ pc' = "checked"
  /\ UNCHANGED <<hist_reads, qdVars, locateVars, evalVars, boundVars, counts_hist, oob, cf, estimates, t, i, configVars, selectorVars>>

NextStability == StabilityReturnFalse \/ StabilityNext \/ StabilityReturnTrue

SpecStability == InitStability /\ [][NextStability]_vars

\* the loop of check_estimates_stability has looked at indices 1..i-1
StabilityLoopInv ==
  pc = "check" => \A k \in 1..(i - 1) : k < Len(estimates) => ~unstable_at(estimates, k)

\* "non-decreasing, and each increment no larger than the one before"
NonDecreasing(est) == \A k \in 1..(Len(est) - 1) : DGe(est[k + 1], est[k])

DiminishingIncrements(est) ==
  \A k \in 2..(Len(est) - 1) :
     DLe(DSub(est[k + 1], est[k]), DSub(est[k], est[k - 1]))

\* C1: check_estimates_stability returns true if and only if the sequence is
\* non-decreasing and no increment exceeds the increment before it.
C1_StableIffConcaveGrowth ==
  pc = "checked" =>
     (stable <=> (NonDecreasing(estimates) /\ DiminishingIncrements(estimates)))

----------------------------------------------------------------------------
(* Spec: calls of optimal_continued_fraction on one histogram *)

MIN_ALLOWED_DEGREE == 6

\* max_terms ranges over MinTerms..MaxTerms
MinTerms == 5
MaxTerms == 9

\* diagonal_idx ranges over -MaxOffset..MaxOffset
MaxOffset == 1

\* max_value ranges over 0..MaxValue, with step_size 1
MaxValue == 3

\* what a read past the end of a vector may find
Garbage == {NaN, PZero}

Doubles(h) == [k \in 1..Len(h) |-> D(h[k])]

\* counts_hist[j] = number of items seen j times
Histograms ==
  { Doubles(<<5, 0, 0, 0, 0, 0, 0, 0, 0>>),
    Doubles(<<0, 1, 1, 2, 1, 1, 3, 1, 0>>),
    Doubles(<<0, 1, 2, 3, 1, 2, 3, 4, 1>>),
    Doubles(<<0, 1, 2, 1, 3, 3, 4, 4, 3>>),
    Doubles(<<0, 2, 2, 1, 1, 2, 3, 1, 2>>) }

\* max_terms taken as it is, odd or even: what the degree loop would start
\* from without the adjustment below
unadjusted_max_terms(mt) == mt

\* local_max_terms = max_terms - (max_terms % 2 == 1)
local_max_terms(mt) == mt - (IF mt % 2 = 1 THEN 1 ELSE 0)

\* the same loop reading counts_hist[j] in place of counts_hist[j + 1]
RECURSIVE power_series_unshifted(_, _, _, _, _)
power_series_unshifted(hist, n, g, j, acc) ==
  IF j >= n THEN acc
  ELSE power_series_unshifted(hist, n, g, j + 1,
         Append(acc, DMul(Rd(hist, j, g), IF j % 2 = 0 THEN D(1) ELSE D(-1))))

\* ps_coeffs[j] = counts_hist[j + 1]*pow(-1, j + 2) for j < local_max_terms
RECURSIVE power_series(_, _, _, _, _)
power_series(hist, n, g, j, acc) ==
  IF j >= n THEN acc
  ELSE power_series(hist, n, g, j + 1,
         Append(acc, DMul(Rd(hist, j + 1, g), IF j % 2 = 0 THEN D(1) ELSE D(-1))))

\* the indices j + 1 of counts_hist the loop over j < n reads
series_reads(n) == {j + 1 : j \in 0..(n - 1)}

Init ==
  /\ counts_hist \in Histograms
  /\ diagonal_idx \in (-MaxOffset)..MaxOffset
  /\ max_terms = MinTerms
  /\ step_size = D(1)
  /\ max_value \in {D(k) : k \in 0..MaxValue}
  /\ oob = NaN
  /\ pc = "idle"
  /\ cf = DefaultContinuedFraction
  /\ estimates = <<>>
  /\ t = PZero
  /\ i = 1
  /\ stable = FALSE
  /\ NoSelector
  /\ NoEval
  /\ NoBound
  /\ NoQd
  /\ NoLocate
  /\ hist_reads = {}

\* a ContinuedFractionApproximation with max_terms = mt is made and
\* optimal_continued_fraction(counts_hist) is entered: the code before the
\* degree loop.  Successive calls use non-decreasing max_terms.
CallOptimal(mt, g) ==
  /\ pc \in {"idle", "returned", "thrown"}
  /\ mt >= max_terms
  /\ max_terms' = mt
  /\ oob' = g
  /\ ps_coeffs' = power_series(counts_hist, local_max_terms(mt), g, 0, <<>>)
  /\ hist_reads' = series_reads(local_max_terms(mt))
  /\ n_terms' = local_max_terms(mt)
  /\ tried' = <<>>
  /\ prev_degree' = IF pc = "returned" /\ result.degree > prev_degree
                      THEN result.degree ELSE prev_degree
  /\ pc' = "select"
  /\ UNCHANGED <<qdVars, locateVars, evalVars, boundVars, counts_hist, diagonal_idx, step_size, max_value, cf, estimates,
                 t, i, stable, result>>

\* one pass through the body of the degree loop that finds the estimates
\* stable: return cf
SelectReturn ==
  /\ pc = "select"
  /\ n_terms >= MIN_ALLOWED_DEGREE
  /\ \E c \in {ContinuedFraction(ps_coeffs, diagonal_idx, n_terms, oob)} :
     \E est \in {extrapolate_distinct(c, counts_hist, max_value, step_size, <<>>, oob)} :
         /\ check_estimates_stability(est)
         /\ cf' = c
         /\ estimates' = est
         /\ stable' = TRUE
         /\ tried' = Append(tried, [degree |-> n_terms, stable |-> TRUE])
         /\ result' = c
         /\ pc' = "returned"
  /\ UNCHANGED <<hist_reads, qdVars, locateVars, evalVars, boundVars, counts_hist, configVars, oob, ps_coeffs, n_terms, t, i, prev_degree>>

\* the same pass with a loop that ends after its first unstable degree
SelectGiveUp ==
  /\ pc = "select"
  /\ n_terms >= MIN_ALLOWED_DEGREE
  /\ \E c \in {ContinuedFraction(ps_coeffs, diagonal_idx, n_terms, oob)} :
     \E est \in {extrapolate_distinct(c, counts_hist, max_value, step_size, <<>>, oob)} :
         /\ ~check_estimates_stability(est)
         /\ cf' = c
         /\ estimates' = est
         /\ stable' = FALSE
         /\ tried' = Append(tried, [degree |-> n_terms, stable |-> FALSE])
         /\ n_terms' = 0
  /\ UNCHANGED <<hist_reads, qdVars, locateVars, evalVars, boundVars, counts_hist, configVars, oob, ps_coeffs, t, i, result, prev_degree, pc>>

\* one pass through the body of the degree loop that finds the estimates
\* unstable: n_terms -= 2
SelectNext ==
  /\ pc = "select"
  /\ n_terms >= MIN_ALLOWED_DEGREE
  /\ \E c \in {ContinuedFraction(ps_coeffs, diagonal_idx, n_terms, oob)} :
     \E est \in {extrapolate_distinct(c, counts_hist, max_value, step_size, <<>>, oob)} :
         /\ ~check_estimates_stability(est)
         /\ cf' = c
         /\ estimates' = est
         /\ stable' = FALSE
         /\ tried' = Append(tried, [degree |-> n_terms, stable |-> FALSE])
         /\ n_terms' = n_terms - 2
  /\ UNCHANGED <<hist_reads, qdVars, locateVars, evalVars, boundVars, counts_hist, configVars, oob, ps_coeffs, t, i, result, prev_degree, pc>>

\* the degree loop ends: throw SMITHLABException("unable to fit continued fraction")
SelectThrow ==
  /\ pc = "select"
  /\ n_terms < MIN_ALLOWED_DEGREE
  /\ pc' = "thrown"
  /\ UNCHANGED <<hist_reads, qdVars, locateVars, evalVars, boundVars, counts_hist, configVars, oob, ps_coeffs, n_terms, cf, estimates,
                 t, i, stable, tried, result, prev_degree>>

Next ==
  \/ \E mt \in MinTerms..MaxTerms, g \in Garbage : CallOptimal(mt, g)
  \/ SelectReturn
  \/ SelectNext
  \/ SelectThrow

Spec == Init /\ [][Next]_vars

\* max_terms rounded down to even, and the number of even degrees in [6, adjusted_max]
adjusted_max == 2 * (max_terms \div 2)

degrees_in_range == IF adjusted_max < 6 THEN 0 ELSE ((adjusted_max - 6) \div 2) + 1

\* the degree loop has built adjusted_max, adjusted_max - 2, ... in this order
TriedInOrder ==
  \A k \in 1..Len(tried) :
     /\ tried[k].degree = adjusted_max - 2 * (k - 1)
     /\ tried[k].degree >= 6

\* C2: degrees are tried in the order adjusted_max, adjusted_max - 2, ..., 6;
\* the degree returned is the first one whose estimates pass the check, every
\* degree tried before it failed the check, and nothing is built after it.
C2_LargestStableDegree ==
  /\ pc \in {"select", "returned", "thrown"} => TriedInOrder
  /\ pc = "select" =>
       /\ n_terms = adjusted_max - 2 * Len(tried)
       /\ \A k \in 1..Len(tried) : ~tried[k].stable
  /\ pc = "returned" =>
       /\ tried # <<>>
       /\ \A k \in 1..Len(tried) : tried[k].stable <=> k = Len(tried)
       /\ result.degree = tried[Len(tried)].degree
       /\ result = cf
       /\ result.ps_coeffs = ps_coeffs
       /\ estimates = extrapolate_distinct(result, counts_hist, max_value,
                                           step_size, <<>>, oob)
       /\ check_estimates_stability(estimates)

\* a call that passed over degree 8 and returned degree 6
C2_Witness ==
  /\ pc = "returned"
  /\ Len(tried) = 2
  /\ result.degree = 6

C3_WitnessNoDegree ==
  /\ pc = "thrown"
  /\ adjusted_max < 6
  /\ tried = <<>>

OnlyFirstNonZero(hist) ==
  /\ Len(hist) >= 1
  /\ ~IsZero(hist[1])
  /\ \A k \in 2..Len(hist) : IsZero(hist[k])

\* C4: on a histogram whose only non-zero entry is the first, with
\* max_terms >= 6 and a grid of at least two points, the call does not return.
C4_PathologicalHistogramThrows ==
  (/\ OnlyFirstNonZero(counts_hist)
   /\ max_terms >= 6
   /\ DGe(max_value, step_size))
  => pc # "returned"

\* the constructor has produced the value of cf
Constructed == pc \in {"select", "returned", "thrown"} /\ tried # <<>>

\* C6: a constructed ContinuedFraction has |diagonal_idx| offset coefficients;
\* above the diagonal they are the first diagonal_idx series coefficients and
\* cf_coeffs is the quotient-difference output of the rest of the series.
C6_OffsetCoefficients ==
  Constructed =>
    /\ Len(cf.offset_coeffs) = Abs(cf.diagonal_idx)
    /\ cf.diagonal_idx > 0 =>
         /\ cf.offset_coeffs = SubSeq(cf.ps_coeffs, 1, cf.diagonal_idx)
         /\ cf.cf_coeffs =
              quotdiff_algorithm(SubSeq(cf.ps_coeffs, cf.diagonal_idx + 1,
                                        Len(cf.ps_coeffs)), oob)

\* C8: a call that succeeds selects a degree at least as large as every
\* earlier successful call, made with the same histogram, diagonal_idx,
\* step_size and max_value and with max_terms no larger, selected.
C8_DegreeMonotone ==
  pc = "returned" => result.degree >= prev_degree

----------------------------------------------------------------------------
(* SpecEval: the member functions of one ContinuedFraction *)

\* length of the power series the ContinuedFraction is built from
PsLen == 3

PsValues == {D(-1), D(1), D(2)}

EvalHistograms == {Doubles(<<3, 1>>), Doubles(<<0, 2, 1, 1>>)}

StepSizes == {Frac(1, 2), D(2)}

EvalPoints == {PZero, D(1), Frac(1, 2)}

\* what the caller's estimates vector may hold on entry
PriorEstimates ==
  {<<>>, <<D(7), D(7), D(7), D(7), D(7), D(7), D(7), D(7), D(7), D(7)>>}

InitEval ==
  /\ ps_coeffs \in [1..PsLen -> PsValues]
  /\ oob \in Garbage
  /\ \E di \in (-MaxOffset)..MaxOffset, dg \in 1..PsLen :
        cf = ContinuedFraction(ps_coeffs, di, dg, oob)
  /\ estimates \in PriorEstimates
  /\ counts_hist = <<>>
  /\ t = PZero
  /\ i = 1
  /\ stable = FALSE
  /\ pc = "ready"
  /\ NoConfig
  /\ n_terms = 0
  /\ tried = <<>>
  /\ result = DefaultContinuedFraction
  /\ prev_degree = 0
  /\ NoEval
  /\ NoBound
  /\ NoQd
  /\ NoLocate
  /\ hist_reads = {}

\* cf.extrapolate_distinct(hist, mv, ss, estimates) up to its loop
ExtrapolateBegin(hist, mv, ss) ==
  /\ pc = "ready"
  /\ counts_hist' = hist
  /\ max_value' = mv
  /\ step_size' = ss
  /\ estimates' = extrapolate_begin(estimates, accumulate(hist, PZero))
  /\ t' = ss
  /\ pc' = "extrapolate"
  /\ UNCHANGED <<hist_reads, qdVars, locateVars, evalVars, boundVars, diagonal_idx, max_terms, oob, cf, i, stable,
                 selectorVars>>

\* one pass through the body of the loop of extrapolate_distinct
ExtrapolateStep ==
  /\ pc = "extrapolate"
  /\ DLe(t, max_value)
  /\ estimates' = Append(estimates,
                         DAdd(accumulate(counts_hist, PZero), Evaluate(cf, t, oob)))
  /\ t' = DAdd(t, step_size)
  /\ UNCHANGED <<hist_reads, qdVars, locateVars, evalVars, boundVars, counts_hist, configVars, oob, cf, i, stable, pc,
                 selectorVars>>

\* the loop of extrapolate_distinct ends
ExtrapolateEnd ==
  /\ pc = "extrapolate"
  /\ ~DLe(t, max_value)
  /\ pc' = "extrapolated"
  /\ UNCHANGED <<hist_reads, qdVars, locateVars, evalVars, boundVars, counts_hist, configVars, oob, cf, estimates, t, i,
                 stable, selectorVars>>

\* cf(x): ContinuedFraction::operator()
Call(x) ==
  /\ pc = "ready"
  /\ val' = x
  /\ value' = Evaluate(cf, x, oob)
  /\ real_steps' = evaluate_steps(cf, x, oob)
  /\ pc' = "evaluated"
  /\ UNCHANGED <<hist_reads, qdVars, locateVars, boundVars, counts_hist, configVars, oob, cf, estimates, t, i, stable,
                 selectorVars, df, deriv, cplx_steps>>

\* cf.complex_deriv(val) at the point just evaluated
ComplexDeriv ==
  /\ pc = "evaluated"
  /\ \E r \in {complex_df(cf, val, oob)} :
         /\ df' = r.approx
         /\ cplx_steps' = r.steps
         /\ deriv' = r.approx.im
  /\ pc' = "derived"
  /\ UNCHANGED <<hist_reads, qdVars, locateVars, boundVars, counts_hist, configVars, oob, cf, estimates, t, i, stable,
                 selectorVars, val, value, real_steps>>

NextEval ==
  \/ \E hist \in EvalHistograms, mv \in {D(k) : k \in 0..MaxValue}, ss \in StepSizes :
        ExtrapolateBegin(hist, mv, ss)
  \/ ExtrapolateStep
  \/ ExtrapolateEnd
  \/ \E x \in EvalPoints : Call(x)
  \/ ComplexDeriv

SpecEval == InitEval /\ [][NextEval]_vars

\* equal as values: both NaN, or equal under ==
SameDouble(a, b) == (IsNaN(a) /\ IsNaN(b)) \/ DEq(a, b)

\* the sum of a histogram, from its last entry to its first
RECURSIVE HistSum(_)
HistSum(h) == IF h = <<>> THEN PZero ELSE DAdd(Head(h), HistSum(Tail(h)))

\* floor(a/b) for finite a >= 0 and b > 0
FloorDiv(a, b) == (a[1] * b[2]) \div (a[2] * b[1])

\* the stepwise loop and the operator used by the degree loop agree
ExtrapolateAgrees ==
  pc = "extrapolated" =>
    estimates = extrapolate_distinct(cf, counts_hist, max_value, step_size, <<>>, oob)

\* C5: extrapolate_distinct leaves in estimates the histogram sum followed by
\* sum + cf(i*step_size) for every i >= 1 with i*step_size <= max_value, and
\* nothing else, whatever estimates held before:
\* 1 + floor(max_value/step_size) elements.
C5_ExtrapolateContents ==
  pc = "extrapolated" =>
    /\ Len(estimates) = 1 + FloorDiv(max_value, step_size)
    /\ SameDouble(estimates[1], HistSum(counts_hist))
    /\ \A k \in 1..(Len(estimates) - 1) :
         /\ DLe(DMul(D(k), step_size), max_value)
         /\ SameDouble(estimates[k + 1],
                       DAdd(HistSum(counts_hist),
                            Evaluate(cf, DMul(D(k), step_size), oob)))
    /\ ~DLe(DMul(D(Len(estimates)), step_size), max_value)

\* an extrapolation over a grid of at least three points
C5_Witness ==
  /\ pc = "extrapolated"
  /\ Len(estimates) >= 4
  /\ \E k \in 2..Len(estimates) : ~IsNaN(estimates[k])

\* num[i] and den[i] of the recurrence without rescaling, i >= -1
RECURSIVE RefNum(_, _, _)
RefNum(c, x, k) ==
  IF k = -1 THEN PZero
  ELSE IF k = 0 THEN c[1]
  ELSE DAdd(RefNum(c, x, k - 1), DMul(DMul(c[k + 1], x), RefNum(c, x, k - 2)))

RECURSIVE RefDen(_, _, _)
RefDen(c, x, k) ==
  IF k <= 0 THEN D(1)
  ELSE DAdd(RefDen(c, x, k - 1), DMul(DMul(c[k + 1], x), RefDen(c, x, k - 2)))

\* C9: on the diagonal, for a depth d >= 1 within the coefficients, the
\* value of operator()(x) is x*num[d-1]/den[d-1] of the recurrence without
\* rescaling.
C9_OnDiagonalIsUnscaledRatio ==
  (/\ pc = "evaluated"
   /\ cf.diagonal_idx = 0
   /\ cf.degree >= 1
   /\ cf.degree <= Len(cf.cf_coeffs))
  => SameDouble(value,
                DDiv(DMul(val, RefNum(cf.cf_coeffs, val, cf.degree - 1)),
                     RefDen(cf.cf_coeffs, val, cf.degree - 1)))

\* C10: complex_deriv runs its loop over the indices 1..degree-1 of
\* cf_coeffs, the ones the loop of operator() uses, in every diagonal mode.
C10_SameRecurrenceSteps ==
  pc = "derived" =>
    /\ real_steps = [k \in 1..(cf.degree - 1) |-> k]
    /\ cplx_steps = real_steps

----------------------------------------------------------------------------
(* SpecBound: one call of lowerbound_librarysize *)

\* the histograms and diagonals of SpecBound: those whose derivatives and
\* bisection points stay within the 32-bit integers of TLC
BoundFixtures ==
  {<<h, di>> : h \in {Doubles(<<5, 0, 0, 0, 0, 0, 0, 0, 0>>),
                       Doubles(<<0, 1, 1, 1, 1, 1, 1, 1, 1>>)},
               di \in (-MaxOffset)..MaxOffset}
  \cup {<<Doubles(<<0, 1, 1, 2, 1, 1, 3, 1, 0>>), -1>>,
        <<Doubles(<<0, 1, 1, 2, 1, 1, 3, 1, 0>>), 1>>,
        <<Doubles(<<0, 1, 2, 1, 3, 3, 4, 4, 3>>), -1>>,
        <<Doubles(<<0, 1, 2, 1, 3, 3, 4, 4, 3>>), 1>>,
        <<Doubles(<<0, 1, 1, 2, 1, 1, 2, 1, 1>>), 0>>}

InitBound ==
  /\ \E f \in BoundFixtures : counts_hist = f[1] /\ diagonal_idx = f[2]
  /\ max_terms = MinTerms
  /\ step_size \in {PZero, D(1)}
  /\ max_value \in {D(k) : k \in 0..(MaxValue - 1)}
  /\ oob = NaN
  /\ pc = "idle"
  /\ cf = DefaultContinuedFraction
  /\ estimates = <<>>
  /\ t = PZero
  /\ i = 1
  /\ stable = FALSE
  /\ NoSelector
  /\ NoEval
  /\ NoBound
  /\ NoQd
  /\ NoLocate
  /\ hist_reads = {}

\* a ContinuedFractionApproximation with max_terms = mt is made and
\* lowerbound_librarysize(counts_hist, upper_bound) is entered: the code
\* before the degree loop.  upper_bound is not used.
CallLowerbound(mt, g) ==
  /\ pc = "idle"
  /\ max_terms' = mt
  /\ oob' = g
  /\ ps_coeffs' = power_series(counts_hist, local_max_terms(mt), g, 0, <<>>)
  /\ hist_reads' = series_reads(local_max_terms(mt))
  /\ n_terms' = local_max_terms(mt)
  /\ best' = DBL_MAX
  /\ tried' = <<>>
  /\ pc' = "bound"
  /\ UNCHANGED <<qdVars, locateVars, evalVars, counts_hist, diagonal_idx, step_size, max_value, cf,
                 estimates, t, i, stable, result, prev_degree, current_max>>

\* the degree loop builds cf and enters local_max: current_max = cf(0.0)
BoundBuild ==
  /\ pc = "bound"
  /\ n_terms > MIN_ALLOWED_DEGREE
  /\ \E c \in {ContinuedFraction(ps_coeffs, diagonal_idx, n_terms, oob)} :
        /\ cf' = c
        /\ current_max' = Evaluate(c, PZero, oob)
  /\ val' = step_size
  /\ pc' = "local_max"
  /\ UNCHANGED <<hist_reads, qdVars, locateVars, counts_hist, configVars, oob, estimates, t, i, stable, selectorVars,
                 value, real_steps, df, deriv, cplx_steps, best>>

\* one pass through the body of the loop of local_max
LocalMaxStep ==
  /\ pc = "local_max"
  /\ DLe(val, max_value)
  /\ \E z \in {locate_zero_cf_deriv(cf, val, DSub(val, step_size), oob)} :
        current_max' = DMax(current_max, Evaluate(cf, z, oob))
  /\ val' = DAdd(val, step_size)
  /\ UNCHANGED <<hist_reads, qdVars, locateVars, counts_hist, configVars, oob, cf, estimates, t, i, stable, selectorVars,
                 value, real_steps, df, deriv, cplx_steps, best, pc>>

\* local_max returns current_max; best = std::min(best, candidate_best);
\* n_terms -= 2
LocalMaxReturn ==
  /\ pc = "local_max"
  /\ ~DLe(val, max_value)
  /\ best' = min_best(best, current_max)
  /\ tried' = Append(tried, [degree |-> n_terms, local_max |-> current_max])
  /\ n_terms' = n_terms - 2
  /\ pc' = "bound"
  /\ UNCHANGED <<hist_reads, qdVars, locateVars, evalVars, counts_hist, configVars, oob, ps_coeffs, cf, estimates, t, i,
                 stable, result, prev_degree, current_max>>

\* the degree loop ends: return best
BoundReturn ==
  /\ pc = "bound"
  /\ ~(n_terms > MIN_ALLOWED_DEGREE)
  /\ pc' = "bounded"
  /\ UNCHANGED <<hist_reads, qdVars, locateVars, evalVars, boundVars, counts_hist, configVars, oob, ps_coeffs, n_terms,
                 cf, estimates, t, i, stable, tried, result, prev_degree>>

NextBound ==
  \/ \E mt \in MinTerms..MaxTerms, g \in Garbage : CallLowerbound(mt, g)
  \/ BoundBuild
  \/ LocalMaxStep
  \/ LocalMaxReturn
  \/ BoundReturn

SpecBound == InitBound /\ [][NextBound]_vars

\* the minimum of the local_max values of the degrees in tried[k..]
RECURSIVE MinLocalMax(_, _)
MinLocalMax(tr, k) ==
  IF k = Len(tr) THEN tr[k].local_max
  ELSE LET rest == MinLocalMax(tr, k + 1)
       IN  IF DLt(tr[k].local_max, rest) THEN tr[k].local_max ELSE rest

\* C7: lowerbound_librarysize has built every even degree from adjusted_max
\* down to and including 6 and returns the minimum of their local_max values:
\* when adjusted_max >= 6 some degree was tried and the value returned is the
\* local_max of one of them.
C7_MinOverAllDegrees ==
  pc = "bounded" =>
    /\ Len(tried) = degrees_in_range
    /\ \A k \in 1..Len(tried) : tried[k].degree = adjusted_max - 2 * (k - 1)
    /\ adjusted_max >= 6 =>
         /\ tried # <<>>
         /\ \E k \in 1..Len(tried) : best = tried[k].local_max
         /\ SameDouble(best, MinLocalMax(tried, 1))

----------------------------------------------------------------------------
(* the degree of a ContinuedFraction against the coefficients it holds *)

\* C11: every ContinuedFraction the degree loop has built and evaluated has
\* degree <= cf_coeffs.size(), whatever the diagonal index, so the loop of
\* the evaluator (indices 1..degree-1) stays inside cf_coeffs.
C11_DegreeWithinCoefficients ==
  Constructed =>
    /\ cf.degree <= Len(cf.cf_coeffs)
    /\ \A k \in 1..(cf.degree - 1) : k < Len(cf.cf_coeffs)

----------------------------------------------------------------------------
(* SpecQD: one call of quotdiff_algorithm, loop by loop *)

\* the series quotdiff_algorithm is called with: depth >= 2
QdSeries == UNION {[1..n -> PsValues] : n \in 2..PsLen}

\* depth rows of depth cells, all 0.0
zero_table(depth) == [r \in 1..depth |-> [j \in 1..depth |-> PZero]]

InitQD ==
  /\ oob \in Garbage
  /\ pc = "ready"
  /\ ps_coeffs = <<>>
  /\ i = 1
  /\ counts_hist = <<>>
  /\ cf = DefaultContinuedFraction
  /\ estimates = <<>>
  /\ t = PZero
  /\ stable = FALSE
  /\ NoConfig
  /\ n_terms = 0
  /\ tried = <<>>
  /\ result = DefaultContinuedFraction
  /\ prev_degree = 0
  /\ NoEval
  /\ NoBound
  /\ NoQd
  /\ NoLocate
  /\ hist_reads = {}

\* quotdiff_algorithm(series, cf_coeffs) is entered: the two tables are made
QdCall(series) ==
  /\ pc = "ready"
  /\ ps_coeffs' = series
  /\ q_table' = zero_table(Len(series))
  /\ e_table' = zero_table(Len(series))
  /\ pc' = "first_row"
  /\ UNCHANGED <<hist_reads, locateVars, evalVars, boundVars, counts_hist, configVars, oob, n_terms,
                 cf, estimates, t, i, stable, tried, result, prev_degree, cf_coeffs,
                 ps_reads, cell_reads>>

\* the loops that fill row 1 of q_table and row 1 of e_table
QdFirstRow ==
  /\ pc = "first_row"
  /\ \E q1 \in {q_row1(ps_coeffs, oob, 0, <<>>)} :
        /\ q_table' = [q_table EXCEPT ![2] = q1]
        /\ e_table' = [e_table EXCEPT ![2] = e_row1(q1, Len(ps_coeffs), 0, <<>>)]
  /\ ps_reads' = ps_reads \cup UNION {{k + 1, k} : k \in 0..(Len(q_table[2]) - 1)}
  /\ cell_reads' = cell_reads \cup
        UNION {{<<1, j + 1>>, <<1, j>>, <<0, j + 1>>} : j \in 0..(Len(ps_coeffs) - 2)}
  /\ i' = 2
  /\ pc' = "rows"
  /\ UNCHANGED <<hist_reads, locateVars, evalVars, boundVars, counts_hist, configVars, oob, ps_coeffs,
                 n_terms, cf, estimates, t, stable, tried, result, prev_degree, cf_coeffs>>

\* one pass through the body of the loop over the rows i >= 2
QdRow ==
  /\ pc = "rows"
  /\ i < Len(ps_coeffs)
  /\ \E qi \in {q_row(q_table[i], e_table[i], oob, 0, <<>>)} :
        /\ q_table' = [q_table EXCEPT ![i + 1] = qi]
        /\ e_table' = [e_table EXCEPT ![i + 1] = e_row(qi, e_table[i], oob, 0, <<>>)]
  /\ cell_reads' = cell_reads \cup
        UNION {{<<i - 1, j + 1>>, <<i - 1, j>>, <<i, j + 1>>, <<i, j>>} :
                 j \in 0..(Len(ps_coeffs) - 1)}
  /\ i' = i + 1
  /\ UNCHANGED <<hist_reads, locateVars, evalVars, boundVars, counts_hist, configVars, oob, ps_coeffs,
                 n_terms, cf, estimates, t, stable, tried, result, prev_degree, cf_coeffs,
                 ps_reads, pc>>

\* the loop over the rows ends; the coefficients are pushed
QdPush ==
  /\ pc = "rows"
  /\ i >= Len(ps_coeffs)
  /\ cf_coeffs' = qd_coeffs([q |-> q_table, e |-> e_table], Len(ps_coeffs), 1,
                            Append(cf_coeffs, Rd(ps_coeffs, 0, oob)))
  /\ ps_reads' = ps_reads \cup {0}
  /\ cell_reads' = cell_reads \cup
        {<<IF k % 2 = 0 THEN k \div 2 ELSE (k + 1) \div 2, 0>> :
           k \in 1..(Len(ps_coeffs) - 1)}
  /\ pc' = "done"
  /\ UNCHANGED <<hist_reads, locateVars, evalVars, boundVars, counts_hist, configVars, oob, ps_coeffs,
                 n_terms, cf, estimates, t, i, stable, tried, result, prev_degree,
                 q_table, e_table>>

NextQD ==
  \/ \E series \in QdSeries : QdCall(series)
  \/ QdFirstRow
  \/ QdRow
  \/ QdPush

SpecQD == InitQD /\ [][NextQD]_vars

\* the loops taken one by one give what the operator used by the
\* constructor gives
QdAgrees ==
  pc = "done" => cf_coeffs = quotdiff_algorithm(ps_coeffs, oob)

\* the coefficients pushed: n of them, the first the first series
\* coefficient, odd i the negated q_table[(i + 1)/2][0], even i >= 2 the
\* negated e_table[i/2][0]
QdCoefficients ==
  pc = "done" =>
    /\ Len(cf_coeffs) = Len(ps_coeffs)
    /\ cf_coeffs[1] = ps_coeffs[1]
    /\ \A k \in 1..(Len(ps_coeffs) - 1) :
         SameDouble(cf_coeffs[k + 1],
                    IF k % 2 = 1 THEN DNeg(q_table[((k + 1) \div 2) + 1][1])
                    ELSE DNeg(e_table[(k \div 2) + 1][1]))

\* every index read lies inside the series and inside the tables
QdReadsInBounds ==
  /\ \A k \in ps_reads : k \in 0..(Len(ps_coeffs) - 1)
  /\ \A c \in cell_reads :
       c[1] \in 0..(Len(ps_coeffs) - 1) /\ c[2] \in 0..(Len(ps_coeffs) - 1)

\* C12: for a series of length n >= 2, quotdiff_algorithm reads only
\* ps_coeffs[0..n-1] and table cells with row and column in 0..n-1, and
\* pushes exactly n coefficients: the first series coefficient, then the
\* negated first-column entries of q_table (odd i) and e_table (even i).
C12_ReadsAndCoefficients ==
  pc = "done" => QdReadsInBounds /\ QdCoefficients

----------------------------------------------------------------------------
(* termination of lowerbound_librarysize *)

\* SpecBound with every step that can be taken eventually taken
SpecBoundFair == InitBound /\ [][NextBound]_vars /\ WF_vars(NextBound)

\* C13: for every max_terms, step_size and max_value a call terminates:
\* from the head of the degree loop the return is eventually reached, the
\* degree loop and the grid loop of each degree having ended.
C13_DegreeAndGridLoopsEnd == (pc = "bound") ~> (pc = "bounded")

----------------------------------------------------------------------------
(* SpecLocate: one call of locate_zero_cf_deriv, pass by pass *)

\* the power series the bracketed continued fractions are built from; the
\* last one gives c0*x*(1 - x) on the diagonal
LocateSeries == [1..PsLen -> PsValues] \cup {Doubles(<<1, -1, 0>>)}

\* the brackets prev_val < val of the calls
Brackets ==
  UNION {{<<D(a), D(b)>> : b \in (a + 1)..MaxValue} : a \in 0..MaxValue}

InitLocate ==
  /\ ps_coeffs \in LocateSeries
  /\ oob \in Garbage
  /\ \E di \in (-MaxOffset)..MaxOffset, dg \in 1..PsLen :
        cf = ContinuedFraction(ps_coeffs, di, dg, oob)
  /\ estimates = <<>>
  /\ counts_hist = <<>>
  /\ t = PZero
  /\ i = 1
  /\ stable = FALSE
  /\ pc = "ready"
  /\ NoConfig
  /\ n_terms = 0
  /\ tried = <<>>
  /\ result = DefaultContinuedFraction
  /\ prev_degree = 0
  /\ NoEval
  /\ NoBound
  /\ NoQd
  /\ NoLocate
  /\ hist_reads = {}

\* locate_zero_cf_deriv(cf, v, pv) is entered: the code before its loop
LocateCall(v, pv) ==
  /\ pc = "ready"
  /\ val' = v
  /\ prev_val' = pv
  /\ bracket' = locate_init(cf, v, pv, oob)
  /\ pc' = "bisect"
  /\ UNCHANGED <<hist_reads, qdVars, boundVars, counts_hist, configVars, oob, cf, estimates, t, i,
                 stable, selectorVars, value, real_steps, df, deriv, cplx_steps>>

\* the condition of the while loop of locate_zero_cf_deriv
locate_continues(b) ==
  /\ GtTolerance(b.diff)
  /\ GtTolerance(movement(b.val_low, b.val_high))

\* one pass through the body of the loop
LocateStep ==
  /\ pc = "bisect"
  /\ locate_continues(bracket)
  /\ bracket' = locate_step(cf, bracket, oob)
  /\ UNCHANGED <<hist_reads, qdVars, boundVars, evalVars, prev_val, counts_hist, configVars, oob, cf,
                 estimates, t, i, stable, selectorVars, pc>>

\* the loop ends: return val_mid
LocateReturn ==
  /\ pc = "bisect"
  /\ ~locate_continues(bracket)
  /\ value' = bracket.val_mid
  /\ pc' = "located"
  /\ UNCHANGED <<hist_reads, qdVars, boundVars, locateVars, counts_hist, configVars, oob, cf, estimates,
                 t, i, stable, selectorVars, val, real_steps, df, deriv, cplx_steps>>

NextLocate ==
  \/ \E br \in Brackets : LocateCall(br[2], br[1])
  \/ LocateStep
  \/ LocateReturn

SpecLocate == InitLocate /\ [][NextLocate]_vars

\* a and b are non-zero numbers of opposite sign
Opposite(a, b) ==
  /\ ~IsNaN(a) /\ ~IsNaN(b) /\ ~IsZero(a) /\ ~IsZero(b)
  /\ Sign(a) # Sign(b)

\* prev_val <= val_low <= val_mid <= val_high <= val
Ordered(b) ==
  /\ DLe(prev_val, b.val_low)
  /\ DLe(b.val_low, b.val_mid)
  /\ DLe(b.val_mid, b.val_high)
  /\ DLe(b.val_high, val)

\* C14: a call of locate_zero_cf_deriv with prev_val < val makes at least one
\* pass and returns the midpoint of its last pass, which lies in
\* [prev_val, val]; after every pass prev_val <= val_low <= val_mid <=
\* val_high <= val; a pass moves val_high to the midpoint exactly when the
\* derivative at the midpoint and the derivative at val_low are non-zero
\* and of opposite sign, and moves val_low to the midpoint otherwise.
C14_BisectionKeepsBracket ==
  [][/\ (pc = "bisect" /\ pc' = "bisect") =>
          /\ Ordered(bracket')
          /\ IF Opposite(bracket'.deriv_mid, bracket.deriv_low)
               THEN /\ bracket'.val_high = bracket'.val_mid
                    /\ bracket'.val_low = bracket.val_low
             ELSE /\ bracket'.val_low = bracket'.val_mid
                  /\ bracket'.val_high = bracket.val_high
     /\ (pc = "bisect" /\ pc' = "located") =>
          /\ bracket.passes >= 1
          /\ value' = bracket.val_mid
          /\ DLe(prev_val, value') /\ DLe(value', val)]_vars

C14_BothHalvesDiscarded ==
  /\ pc = "located"
  /\ bracket.passes >= 2
  /\ DLt(prev_val, bracket.val_low)
  /\ DLt(bracket.val_high, val)

----------------------------------------------------------------------------
(* SpecLocateFair: a call of locate_zero_cf_deriv that keeps running *)

\* the series of the calls followed to their end
FairSeries ==
  {Doubles(<<1, -1, 0>>), Doubles(<<-1, 1, 1>>), Doubles(<<1, 2, -1>>),
   Doubles(<<2, -1, 1>>)}

InitLocateFair == InitLocate /\ ps_coeffs \in FairSeries

SpecLocateFair == InitLocateFair /\ [][NextLocate]_vars /\ WF_vars(NextLocate)

\* a <= TOLERANCE, for a double a
AtMostTolerance(a) ==
  /\ ~IsNaN(a)
  /\ a # PInf
  /\ a # DBL_MAX
  /\ \/ a = NInf
     \/ a[1] <= 0
     \/ DivPow10(a[2], TOLERANCE_EXP) >= a[1]

Width(b) == DSub(b.val_high, b.val_low)

\* (val_low + val_high)/2.0 is a double of the bracket: storing it does not
\* round it
MidpointExact(b) ==
  DEq(midpoint(b.val_low, b.val_high), DDiv(DAdd(b.val_low, b.val_high), D(2)))

SameStrictSign(a, b) ==
  /\ ~IsNaN(a) /\ ~IsNaN(b) /\ ~IsZero(a) /\ ~IsZero(b)
  /\ Sign(a) = Sign(b)

\* C16: when the derivatives at prev_val and val are non-zero and of opposite
\* sign at the start of a call of locate_zero_cf_deriv, then after every pass
\* of its loop the derivatives at val_low and val_high are not non-zero
\* numbers of the same sign.
C16_SignChangeKept ==
  (/\ pc \in {"bisect", "located"}
   /\ bracket.passes >= 1
   /\ Opposite(complex_deriv(cf, prev_val, oob), complex_deriv(cf, val, oob)))
    => ~SameStrictSign(bracket.deriv_low, bracket.deriv_high)

----------------------------------------------------------------------------
(* the reciprocal series of quotdiff_below_diagonal *)

\* sum over j = from..i of f[i - j]*g[j], indices from 0
RECURSIVE ConvSum(_, _, _, _)
ConvSum(f, g, idx, from) ==
  IF from > idx THEN PZero
  ELSE DAdd(DMul(f[idx - from + 1], g[from + 1]), ConvSum(f, g, idx, from + 1))

\* g is the power-series inverse of f, truncated to the length of f
IsTruncatedInverse(f, g) ==
  /\ Len(g) = Len(f)
  /\ DEq(ConvSum(f, g, 0, 0), D(1))
  /\ \A idx \in 1..(Len(f) - 1) : IsZero(ConvSum(f, g, idx, 0))

\* C17: for a ContinuedFraction built below the diagonal (k = -diagonal_idx)
\* from a series f with f[0] finite and not 0, the reciprocal coefficients g
\* of quotdiff_below_diagonal are the truncated power-series inverse of f,
\* offset_coeffs holds g[0..k-1] and cf_coeffs is what quotdiff_algorithm
\* gives for g[k..n-1].
C17_ReciprocalSeries ==
  (/\ cf.diagonal_idx < 0
   /\ IsFinite(cf.ps_coeffs[1])
   /\ ~IsZero(cf.ps_coeffs[1]))
    => \E g \in {reciprocal_coeffs(cf.ps_coeffs, oob, 1,
                                   <<DInv(cf.ps_coeffs[1])>>)} :
         /\ IsTruncatedInverse(cf.ps_coeffs, g)
         /\ cf.offset_coeffs = SubSeq(g, 1, -cf.diagonal_idx)
         /\ cf.cf_coeffs =
              quotdiff_algorithm(SubSeq(g, 1 - cf.diagonal_idx, Len(g)), oob)

\* a fraction built below the diagonal from a series whose inverse is not
\* its termwise reciprocal
C17_BelowDiagonalBuilt ==
  /\ cf.diagonal_idx < 0
  /\ Len(cf.offset_coeffs) = -cf.diagonal_idx
  /\ Len(cf.cf_coeffs) >= 2
  /\ ~DEq(cf.cf_coeffs[1], DInv(cf.ps_coeffs[2]))
  /\ pc = "derived"

----------------------------------------------------------------------------
(* SpecSeries: the power series both degree loops start from *)

\* histograms of the calls, some of them shorter than max_terms + 1
SeriesHistograms == Histograms \cup EvalHistograms

InitSeries ==
  /\ counts_hist \in SeriesHistograms
  /\ diagonal_idx \in (-MaxOffset)..MaxOffset
  /\ max_terms = MinTerms
  /\ step_size = D(1)
  /\ max_value \in {D(k) : k \in 0..MaxValue}
  /\ oob = NaN
  /\ pc = "idle"
  /\ cf = DefaultContinuedFraction
  /\ estimates = <<>>
  /\ t = PZero
  /\ i = 1
  /\ stable = FALSE
  /\ NoSelector
  /\ NoEval
  /\ NoBound
  /\ NoQd
  /\ NoLocate
  /\ hist_reads = {}

\* either function is entered and runs up to its degree loop
NextSeries ==
  \/ \E mt \in MinTerms..MaxTerms, g \in Garbage : CallOptimal(mt, g)
  \/ \E mt \in MinTerms..MaxTerms, g \in Garbage : CallLowerbound(mt, g)

SpecSeries == InitSeries /\ [][NextSeries]_vars

\* (-1)^j * x
Alternated(x, j) == IF j % 2 = 0 THEN x ELSE DNeg(x)

\* C18: optimal_continued_fraction and lowerbound_librarysize start their
\* degree loops from the same series: it has adjusted_max coefficients,
\* coefficient j is (-1)^j * counts_hist[j + 1] (what lies past the end of
\* the histogram where j + 1 is no index of it), the loop reads the indices
\* 1..adjusted_max of the histogram and never index 0, and all its reads are
\* within the histogram exactly when it has at least adjusted_max + 1 entries.
C18_SameAlternatingSeries ==
  pc \in {"select", "bound"} =>
    /\ Len(ps_coeffs) = adjusted_max
    /\ \A j \in 0..(adjusted_max - 1) :
         SameDouble(ps_coeffs[j + 1],
                    Alternated(IF j + 1 < Len(counts_hist)
                                 THEN counts_hist[j + 2] ELSE oob, j))
    /\ hist_reads = 1..adjusted_max
    /\ (\A r \in hist_reads : r < Len(counts_hist))
         <=> (Len(counts_hist) >= adjusted_max + 1)

\* lowerbound_librarysize has built a series of 8 coefficients with a
\* negative second coefficient from a histogram that is long enough
C18_SeriesBuilt ==
  /\ pc = "bound"
  /\ adjusted_max = 8
  /\ Len(counts_hist) >= adjusted_max + 1
  /\ DLt(ps_coeffs[2], PZero)
  /\ DGt(ps_coeffs[3], PZero)
=============================================================================
